---- MODULE Spec2Model ----
(***************************************************************************)
(* Model of the graph layer (GraphDatabaseManager, src/backend/            *)
(* api_server.py) and of the explanation layer (ModelService,              *)
(* src/backend/model_service.py) of the fraud-ring detection backend.      *)
(*                                                                         *)
(* A Python str is a sequence of pieces, and concatenation is \o.  An id is *)
(* split into its characters, since the code slices ids (id[:6]).  A label, *)
(* group or relationship type name, and a literal fragment of an f-string, *)
(* is one piece; lower() and capitalize(), which the code applies to label *)
(* and group names only, are tabulated over those names.  A Python dict is *)
(* a record; an absent key is a field that is not in the record's DOMAIN.  *)
(* A Python list is a sequence.                                            *)
(***************************************************************************)
EXTENDS Integers, Sequences, FiniteSets, TLC

VARIABLES
    driver,     \* GraphDatabaseManager.driver: "none" (None), or a driver object:
                \* "connected", or "unverified" when verify_connectivity raised
    nodes,      \* the Neo4j store's nodes
    rels,       \* the Neo4j store's relationships
    constraints, \* whether the store holds the uniqueness constraints
    explainer,  \* ModelService.explainer
    model,      \* ModelService.model
    resp,       \* the last call: its arguments, the return statement it took, its result
    threads,    \* the threads of the process that are inside a call: their position
                \* and their local variables
    globals     \* the module globals graph_db_instance and model_service_instance,
                \* and the objects constructed so far

vars == <<driver, nodes, rels, constraints, explainer, model, resp, threads, globals>>

\* what a sequential call leaves alone besides the store and the two services
concurrent == <<constraints, threads, globals>>

----------------------------------------------------------------------------
(* Bounds of the model *)

\* transaction ids "tx1" .. "tx<NumTxnIds>" are ingested and queried
NumTxnIds == 2
\* depth arguments 0 .. MaxDepth
MaxDepth == 2

----------------------------------------------------------------------------
(* Python str operations *)

DigitChars == <<"0","1","2","3","4","5","6","7","8","9">>

\* the label and group names, each as written in the Cypher queries, after
\* str.lower() and after str.capitalize()
CaseTable ==
    << <<"Transaction", "transaction", "Transaction">>,
       <<"User", "user", "User">>,
       <<"IP", "ip", "Ip">>,
       <<"Email", "email", "Email">>,
       <<"Device", "device", "Device">>,
       <<"PaymentToken", "paymenttoken", "Paymenttoken">>,
       <<"unknown", "unknown", "Unknown">> >>

CaseRows(w) == {i \in 1..Len(CaseTable) : \E c \in 1..3 : CaseTable[i][c] = w}

\* str.lower() of a name
StrLower(s) ==
    [i \in 1..Len(s) |-> IF CaseRows(s[i]) = {} THEN s[i]
                         ELSE CaseTable[CHOOSE r \in CaseRows(s[i]) : TRUE][2]]

\* str.capitalize() of a name: first character upper-cased, the rest lower-cased
StrCapitalize(s) ==
    [i \in 1..Len(s) |-> IF CaseRows(s[i]) = {} THEN s[i]
                         ELSE CaseTable[CHOOSE r \in CaseRows(s[i]) : TRUE][3]]

\* s[:n] of an id
StrPrefix(s, n) == SubSeq(s, 1, IF Len(s) < n THEN Len(s) ELSE n)

\* a non-negative integer printed on w digits, zero padded (format spec 0wd)
RECURSIVE ZeroPad(_, _)
ZeroPad(n, w) == IF w = 0 THEN <<>> ELSE Append(ZeroPad(n \div 10, w - 1), DigitChars[(n % 10) + 1])

\* str(n) for 0 <= n <= 9
DigitStr(n) == <<DigitChars[n + 1]>>

----------------------------------------------------------------------------
(* String literals of the source *)

L_Transaction == <<"Transaction">>
L_User == <<"User">>
L_IP == <<"IP">>
L_Email == <<"Email">>
L_Device == <<"Device">>
L_PaymentToken == <<"PaymentToken">>

T_PERFORMED == <<"PERFORMED">>
T_USED_IP == <<"USED_IP">>
T_HAS_EMAIL == <<"HAS_EMAIL">>
T_USED_DEVICE == <<"USED_DEVICE">>

T_PERFORMED_BY == <<"PERFORMED_BY">>
T_USED_TOKEN == <<"USED_TOKEN">>
T_SHARED_TOKEN_LINK == <<"SHARED_TOKEN_LINK">>
T_USED_IN == <<"USED_IN">>

G_transaction == <<"transaction">>
G_user == <<"user">>
G_paymenttoken == <<"paymenttoken">>
G_email == <<"email">>
G_ip == <<"ip">>
G_device == <<"device">>
G_unknown == <<"unknown">>

S_unknown_device == <<"u","n","k","n","o","w","n","_","d","e","v","i","c","e">>
S_user_1 == <<"u","s","e","r","_","1">>
S_pmt_A == <<"p","m","t","_","A">>
S_pmt_B == <<"p","m","t","_","B">>
S_email_X == <<"e","m","a","i","l","_","X">>
S_fraud_1 == <<"f","r","a","u","d","_","1">>
S_fraud_2 == <<"f","r","a","u","d","_","2">>

----------------------------------------------------------------------------
(* Inputs *)

TxnId(n) == <<"t","x">> \o DigitStr(n)
TxnIds == {TxnId(n) : n \in 1..NumTxnIds}
UserIds == {<<"u","1">>}
IpAddresses == {<<"1",".","2",".","3",".","4">>}
Emails == {<<"a","@","b",".","c","o","m">>}
DeviceIds == {<<"d","e","v","i","c","e","_","1">>}

\* a datetime.datetime value
Datetime(y, mo, d, h, mi, s) ==
    [kind |-> "datetime", year |-> y, month |-> mo, day |-> d, hour |-> h, minute |-> mi, second |-> s]
\* a str value
PyStr(s) == [kind |-> "str", text |-> s]

\* datetime.isoformat(): YYYY-MM-DDTHH:MM:SS
IsoFormat(dt) ==
    ZeroPad(dt.year, 4) \o <<"-">> \o ZeroPad(dt.month, 2) \o <<"-">> \o ZeroPad(dt.day, 2)
    \o <<"T">> \o ZeroPad(dt.hour, 2) \o <<":">> \o ZeroPad(dt.minute, 2)
    \o <<":">> \o ZeroPad(dt.second, 2)

\* the (amount, merchant, timestamp) triples callers send: two with a datetime
\* timestamp, and the first of them again with its timestamp already formatted
\* as an ISO-8601 str
Attributes ==
    { [amount |-> 42, merchant |-> <<"A","c","m","e">>, timestamp |-> Datetime(2024, 1, 1, 0, 0, 0)],
      [amount |-> 7, merchant |-> <<"e","B","a","y">>, timestamp |-> Datetime(2024, 11, 30, 23, 59, 7)],
      [amount |-> 42, merchant |-> <<"A","c","m","e">>,
       timestamp |-> PyStr(IsoFormat(Datetime(2024, 1, 1, 0, 0, 0)))] }

\* the transaction dicts passed to add_transaction; device_id is an optional key
Transactions ==
    LET base == { [transaction_id |-> t, user_id |-> u, ip_address |-> i, email |-> e,
                   amount |-> a.amount, merchant |-> a.merchant, timestamp |-> a.timestamp] :
                  t \in TxnIds, u \in UserIds, i \in IpAddresses, e \in Emails, a \in Attributes }
    IN base \cup { b @@ [device_id |-> d] : b \in base, d \in DeviceIds }

\* dict.get(key): <<value>>, or <<>> for Python's None
DictGet(d, key) == IF key \in DOMAIN d THEN <<d[key]>> ELSE <<>>

\* variant: the default is the empty str
Coalesce_EmptyDefault(opt, default) == IF opt = <<>> THEN <<>> ELSE opt[1]

\* Cypher COALESCE(x, default)
Coalesce(opt, default) == IF opt = <<>> THEN default ELSE opt[1]

----------------------------------------------------------------------------
(* The store: Cypher MERGE / SET *)

\* The store's internal identity of a node (element_id) is an opaque str the
\* code never parses.  Here it is built from what the node was created with
\* and a copy number, so that two nodes created from the same values are still
\* two nodes.
ElementId(parts, k) == <<"4:">> \o parts \o <<":">> \o DigitStr(k)

HasLabel(n, label) == \E k \in 1..Len(n.labels) : n.labels[k] = label

\* the nodes MERGE (x:label {id: id}) matches
MatchNode(ns, label, id) ==
    {n \in ns : HasLabel(n, label) /\ "id" \in DOMAIN n.props /\ n.props.id = id}

\* CREATE (x:label {id: id})
CreateNode(ns, label, id) ==
    ns \cup {[element_id |-> ElementId(label \o <<"/">> \o id, Cardinality(MatchNode(ns, label, id))),
              labels |-> <<label>>, props |-> [id |-> id]]}

\* variant: CREATE in the place of MERGE
MergeNode_AlwaysCreate(ns, label, id) == CreateNode(ns, label, id)

\* MERGE (x:label {id: id}): create the node only when none matches
MergeNode(ns, label, id) ==
    IF MatchNode(ns, label, id) # {} THEN ns ELSE CreateNode(ns, label, id)

\* the node a MERGE bound, by element_id (the store's uniqueness constraints
\* leave one match)
BoundNode(ns, label, id) == (CHOOSE n \in MatchNode(ns, label, id) : TRUE).element_id

\* SET t.amount = .., t.merchant = .., t.timestamp = .. on the node bound to t
SetTxnProps(ns, t, amount, merchant, timestamp) ==
    {IF n.element_id = t
     THEN [n EXCEPT !.props = [amount |-> amount, merchant |-> merchant,
                               timestamp |-> timestamp] @@ @]
     ELSE n : n \in ns}

\* the relationships MERGE (a)-[:type]->(b) matches
MatchRel(rs, a, b, type) == {r \in rs : r.start = a /\ r.end = b /\ r.type = type}

\* CREATE (a)-[:type]->(b); copy tells apart relationships created alike
CreateRel(rs, a, b, type) ==
    rs \cup {[start |-> a, end |-> b, type |-> type,
              copy |-> Cardinality(MatchRel(rs, a, b, type))]}

\* MERGE (a)-[:type]->(b): create the relationship only when none matches
MergeRel(rs, a, b, type) ==
    IF MatchRel(rs, a, b, type) # {} THEN rs ELSE CreateRel(rs, a, b, type)

\* the whole ingestion query, run as one auto-commit transaction
IngestQuery(ns, rs, p) ==
    LET n1 == MergeNode(ns, L_Transaction, p.txn_id)
        t == BoundNode(n1, L_Transaction, p.txn_id)
        n2 == SetTxnProps(n1, t, p.amount, p.merchant, p.timestamp)
        n3 == MergeNode(n2, L_User, p.user_id)
        u == BoundNode(n3, L_User, p.user_id)
        r1 == MergeRel(rs, u, t, T_PERFORMED)
        n4 == MergeNode(n3, L_IP, p.ip_address)
        r2 == MergeRel(r1, u, BoundNode(n4, L_IP, p.ip_address), T_USED_IP)
        n5 == MergeNode(n4, L_Email, p.email)
        r3 == MergeRel(r2, u, BoundNode(n5, L_Email, p.email), T_HAS_EMAIL)
        dev == Coalesce(p.device_id, S_unknown_device)
        n6 == MergeNode(n5, L_Device, dev)
        r4 == MergeRel(r3, u, BoundNode(n6, L_Device, dev), T_USED_DEVICE)
    IN [nodes |-> n6, rels |-> r4]

\* the keyword arguments of session.run; evaluating them raises AttributeError
\* when the timestamp has no isoformat method
IngestParamsRaise(txn) == txn.timestamp.kind # "datetime"

IngestParams(txn) ==
    [txn_id |-> txn.transaction_id, user_id |-> txn.user_id, ip_address |-> txn.ip_address,
     email |-> txn.email, timestamp |-> IsoFormat(txn.timestamp), amount |-> txn.amount,
     merchant |-> txn.merchant, device_id |-> DictGet(txn, "device_id")]

----------------------------------------------------------------------------
(* Responses *)

NoGraph == [nodes |-> <<>>, edges |-> <<>>]

\* the fields every response carries; ret is the source line at which the call
\* ended (a return statement, a raise, or the last statement before the method
\* ran off its end)
Response(op, ret) ==
    [op |-> op, ret |-> ret, raised |-> FALSE, txn_id |-> <<>>, depth |-> 0,
     result |-> NoGraph]

----------------------------------------------------------------------------
(* GraphDatabaseManager.add_transaction *)

\* outcome of the store for one call: the session opens and the query commits,
\* or opening the session / running the query raises
SessionOutcomes == {"ok", "error"}

AddTransaction(txn, outcome) ==
    /\ IF driver = "none"
       THEN /\ UNCHANGED <<nodes, rels>>
            /\ resp' = [Response("add", 51) EXCEPT !.txn_id = txn.transaction_id]
                       @@ [txn |-> txn, committed |-> FALSE]
       ELSE IF IngestParamsRaise(txn) \/ outcome = "error"
       THEN /\ UNCHANGED <<nodes, rels>>
            /\ resp' = [Response("add", 89) EXCEPT !.txn_id = txn.transaction_id]
                       @@ [txn |-> txn, committed |-> FALSE]
       ELSE LET q == IngestQuery(nodes, rels, IngestParams(txn))
                old == MatchNode(nodes, L_Transaction, txn.transaction_id)
            IN /\ nodes' = q.nodes
               /\ rels' = q.rels
               /\ resp' = [Response("add", 87) EXCEPT !.txn_id = txn.transaction_id]
                          @@ [txn |-> txn, committed |-> TRUE,
                              prior |-> {n.props : n \in old}]
    /\ UNCHANGED <<driver, explainer, model, concurrent>>

----------------------------------------------------------------------------
(* GraphDatabaseManager._generate_mock_subgraph *)

MockNode(id, group) == [id |-> id, group |-> group]
MockEdge(a, b, title) == [from |-> a, to |-> b, title |-> title]

MockNodes(transaction_id) ==
    << MockNode(transaction_id, G_transaction),
       MockNode(S_user_1, G_user),
       MockNode(S_pmt_A, G_paymenttoken),
       MockNode(S_email_X, G_email),
       MockNode(S_fraud_1, G_transaction),
       MockNode(S_fraud_2, G_transaction),
       MockNode(S_pmt_B, G_paymenttoken) >>

MockEdges(transaction_id) ==
    << MockEdge(transaction_id, S_user_1, T_PERFORMED_BY),
       MockEdge(S_user_1, S_pmt_A, T_USED_TOKEN),
       MockEdge(S_pmt_A, S_pmt_B, T_SHARED_TOKEN_LINK),
       MockEdge(S_pmt_B, S_fraud_1, T_USED_IN),
       MockEdge(S_pmt_B, S_fraud_2, T_USED_IN) >>

\* variant: after an error nothing is returned
GenerateMockSubgraph_EmptyOnError(transaction_id, error) ==
    IF error THEN [nodes |-> <<>>, edges |-> <<>>]
    ELSE [nodes |-> MockNodes(transaction_id), edges |-> MockEdges(transaction_id)]

\* variant: after an error the linked fraud transactions are left out
GenerateMockSubgraph_ErrorDependent(transaction_id, error) ==
    IF error THEN [nodes |-> SubSeq(MockNodes(transaction_id), 1, 4),
                   edges |-> SubSeq(MockEdges(transaction_id), 1, 2)]
    ELSE [nodes |-> MockNodes(transaction_id), edges |-> MockEdges(transaction_id)]

\* the error parameter is not read
GenerateMockSubgraph(transaction_id, error) ==
    [nodes |-> MockNodes(transaction_id), edges |-> MockEdges(transaction_id)]

----------------------------------------------------------------------------
(* Graph traversal of the two Cypher queries *)

\* a Cypher collection as a Python list; Cypher leaves the order unspecified
RECURSIVE SetToSeq(_)
SetToSeq(S) == IF S = {} THEN <<>>
               ELSE LET x == CHOOSE y \in S : TRUE IN <<x>> \o SetToSeq(S \ {x})

NodeById(eid) == CHOOSE n \in nodes : n.element_id = eid

\* the relationships with an end at node a, whatever their direction
Touching(a) == {r \in rels : r.start = a \/ r.end = a}
OtherEnd(r, a) == IF r.start = a THEN r.end ELSE r.start

\* the nodes within d relationships (of any type and direction) of node t
RECURSIVE Within(_, _)
Within(t, d) ==
    IF d = 0 THEN {t}
    ELSE LET prev == Within(t, d - 1)
         IN prev \cup UNION {{OtherEnd(r, a) : r \in Touching(a)} : a \in prev}

\* apoc.path.subgraphAll(t, {relationshipFilter: "*", minLevel: 0, maxLevel: depth}):
\* the nodes reachable within depth hops and every relationship between them
SubgraphAll(t, depth) ==
    LET ns == Within(t, depth)
    IN [nodes |-> SetToSeq(ns),
        relationships |-> SetToSeq({r \in rels : r.start \in ns /\ r.end \in ns})]

\* MATCH (t:Transaction {id: $txn_id}) CALL apoc.path.subgraphAll(t, ..)
\* YIELD nodes, relationships RETURN nodes, relationships: one row per match
RichRows(txn_id, depth) ==
    {SubgraphAll(t.element_id, depth) : t \in MatchNode(nodes, L_Transaction, txn_id)}

\* (t)-[*0..2]-(n): the paths of 0 to 2 relationships from t, no relationship
\* used twice in a path; a path is its start, its relationships and its end
SimpleMaxHops == 2
RECURSIVE PathsFrom(_, _)
PathsFrom(t, hops) ==
    IF hops = 0 THEN {[t |-> t, rels |-> <<>>, n |-> t]}
    ELSE LET shorter == PathsFrom(t, hops - 1)
         IN shorter \cup
            UNION {{[t |-> t, rels |-> Append(p.rels, r), n |-> OtherEnd(r, p.n)] :
                    r \in {x \in Touching(p.n) : \A k \in 1..Len(p.rels) : p.rels[k] # x}} :
                   p \in {q \in shorter : Len(q.rels) = hops - 1}}

\* MATCH (t:Transaction {id: $txn_id})
\* OPTIONAL MATCH path = (t)-[*0..2]-(n)
\* WITH collect(DISTINCT t) + collect(DISTINCT n) as nodes, relationships(path) as rels
\*   -- an aggregation: one row per distinct value of relationships(path)
\* UNWIND rels as rel
\*   -- one row per element of rels; a row whose rels is empty is dropped
\* RETURN nodes, collect(DISTINCT rel) as relationships
\*   -- an aggregation: one row per distinct value of nodes
SimpleRows(txn_id) ==
    LET paths == UNION {PathsFrom(t.element_id, SimpleMaxHops) :
                        t \in MatchNode(nodes, L_Transaction, txn_id)}
        keys == {p.rels : p \in paths}
        withRows == {[nodes |-> SetToSeq({p.t : p \in {q \in paths : q.rels = k}})
                                \o SetToSeq({p.n : p \in {q \in paths : q.rels = k}}),
                      rels |-> k] : k \in keys}
        unwound == UNION {{[nodes |-> w.nodes, rel |-> w.rels[i]] : i \in 1..Len(w.rels)} :
                          w \in withRows}
    IN {[nodes |-> ns, relationships |-> SetToSeq({u.rel : u \in {v \in unwound : v.nodes = ns}})] :
        ns \in {u.nodes : u \in unwound}}

\* node.get("id", node.element_id)
IdOf(n) == IF "id" \in DOMAIN n.props THEN n.props.id ELSE n.element_id

\* labels[0].lower() if labels else "unknown"
GroupOf(n) == IF Len(n.labels) > 0 THEN StrLower(n.labels[1]) ELSE G_unknown

ProjectNode(n) == [id |-> IdOf(n), group |-> GroupOf(n), properties |-> n.props]

ProjectRel(r) ==
    [from |-> IdOf(NodeById(r.start)), to |-> IdOf(NodeById(r.end)), title |-> r.type]

\* the two projection loops over a record
ProjectRecord(record) ==
    [nodes |-> [i \in 1..Len(record.nodes) |-> ProjectNode(NodeById(record.nodes[i]))],
     edges |-> [i \in 1..Len(record.relationships) |-> ProjectRel(record.relationships[i])]]

----------------------------------------------------------------------------
(* GraphDatabaseManager.get_transaction_subgraph *)

\* outcome of the store for one tier of one call: the query runs, or an
\* exception is raised in the tier's try block (opening the session fails, the
\* query fails, for the rich tier also: APOC is not installed); the tier's one
\* except clause handles them alike
TierOutcomes == {"ok", "error"}

\* tiers tells how each traversal of the call went: rich is "not_run", "nodes"
\* (it returned nodes), "empty" (no record, or a record without nodes) or
\* "raised"; simple is "not_run", "ran" or "raised"
SubgraphResponse(transaction_id, depth, tiers, ret, result) ==
    [Response("subgraph", ret) EXCEPT !.txn_id = transaction_id, !.depth = depth,
                                      !.result = result]
    @@ [rich |-> tiers[1], simple |-> tiers[2]]

\* variant: the simple tier returns the synthetic subgraph without a traversal
SimpleTier_NoTraversal(transaction_id, depth, rich, simple) ==
    IF simple # "ok"
    THEN resp' = SubgraphResponse(transaction_id, depth, <<rich, "raised">>, 195,
                                  GenerateMockSubgraph(transaction_id, TRUE))
    ELSE resp' = SubgraphResponse(transaction_id, depth, <<rich, "ran">>, 162,
                                  GenerateMockSubgraph(transaction_id, FALSE))

\* the simple tier, entered from the handler of the rich tier's exception; rich
\* tells how the rich tier ended
SimpleTier(transaction_id, depth, rich, simple) ==
    IF simple # "ok"
    THEN resp' = SubgraphResponse(transaction_id, depth, <<rich, "raised">>, 195,
                                  GenerateMockSubgraph(transaction_id, TRUE))
    ELSE IF SimpleRows(transaction_id) = {}
    THEN \* result.single() is None
         resp' = SubgraphResponse(transaction_id, depth, <<rich, "ran">>, 162,
                                  GenerateMockSubgraph(transaction_id, FALSE))
    ELSE \* result.single() returns the first row when there are several (and
         \* warns); which row comes first is up to the store
         \E record \in SimpleRows(transaction_id) :
            LET g == ProjectRecord(record)
            IN IF Len(g.nodes) = 0
               THEN resp' = SubgraphResponse(transaction_id, depth, <<rich, "ran">>, 189,
                                             GenerateMockSubgraph(transaction_id, FALSE))
               ELSE resp' = SubgraphResponse(transaction_id, depth, <<rich, "ran">>, 191, g)

\* variant: the fallback honours depth 0 (the transaction alone)
SubgraphWithoutDriver_DepthAware(transaction_id, depth) ==
    IF depth = 0
    THEN [nodes |-> <<MockNode(transaction_id, G_transaction)>>, edges |-> <<>>]
    ELSE GenerateMockSubgraph(transaction_id, FALSE)

\* if not self.driver: return self._generate_mock_subgraph(transaction_id)
SubgraphWithoutDriver(transaction_id, depth) ==
    GenerateMockSubgraph(transaction_id, FALSE)

GetTransactionSubgraph(transaction_id, depth, rich, simple) ==
    /\ IF driver = "none"
       THEN resp' = SubgraphResponse(transaction_id, depth, <<"not_run", "not_run">>, 98,
                                     SubgraphWithoutDriver(transaction_id, depth))
       ELSE IF rich = "ok" /\ RichRows(transaction_id, depth) # {}
       THEN \* result.single()
            \E record \in RichRows(transaction_id, depth) :
               IF Len(record.nodes) = 0
               THEN \* raise Exception("No subgraph found")
                    SimpleTier(transaction_id, depth, "empty", simple)
               ELSE resp' = SubgraphResponse(transaction_id, depth, <<"nodes", "not_run">>, 140,
                                             ProjectRecord(record))
       ELSE SimpleTier(transaction_id, depth, IF rich = "ok" THEN "empty" ELSE "raised", simple)
    /\ UNCHANGED <<driver, nodes, rels, explainer, model, concurrent>>

\* the ids callers query: the ingested ones, and one that is never ingested and
\* is also the id of a node of the synthetic subgraph
QueryIds == TxnIds \cup {S_user_1}

----------------------------------------------------------------------------
(* ModelService._load_model *)

\* what __init__ finds: no model path or no file at it, a file at the path, or
\* an exception raised while loading
LoadOutcomes == {"no_file", "file", "raised"}

LoadedModel(outcome) ==
    CASE outcome = "no_file" -> "mock_model"
      [] outcome = "file" -> "mock_model_loaded"
      [] outcome = "raised" -> "none"

LoadedExplainer(outcome) ==
    CASE outcome = "no_file" -> "mock_explainer"
      [] outcome = "file" -> "mock_explainer_loaded"
      [] outcome = "raised" -> "none"

----------------------------------------------------------------------------
(* ModelService.predict *)

\* A Python float of this module is a number of hundredths: 0.5 is 50, 0.8 is
\* 80, x / 100.0 is x.

\* hash(str) is a signed integer that changes from one process to the next;
\* here it is one of -HashSpan..HashSpan or one of two far values
HashSpan == 60
HashValues == (-HashSpan..HashSpan) \cup {-2147483647, 2147483647}

\* variant: another modulus
PredictProbability_WideModulus(h) == 50 + (h % 59)

\* 0.5 + (hash(..) % 49) / 100.0; Python's % with a positive right operand
\* is never negative, as is that of TLA+
PredictProbability(h) == 50 + (h % 49)

\* the transaction_data dicts passed to predict; the last has no transaction_id
PredictInputs ==
    {[transaction_id |-> id] : id \in TxnIds \cup {S_user_1}} \cup {[amount |-> 42]}

PredictResponse(transaction_data, ret, raised, result) ==
    [Response("predict", ret) EXCEPT !.raised = raised, !.result = result,
        !.txn_id = Coalesce(DictGet(transaction_data, "transaction_id"), <<>>)]

Predict(transaction_data, h) ==
    /\ IF model = "none"
       THEN resp' = PredictResponse(transaction_data, 74, TRUE, NoGraph)
       ELSE IF ~("transaction_id" \in DOMAIN transaction_data)
       THEN \* KeyError, handled by the except clause
            resp' = PredictResponse(transaction_data, 97, FALSE,
                        [fraud_probability |-> 0, risk_factors |-> <<>>])
       ELSE resp' = PredictResponse(transaction_data, 89, FALSE,
                        [fraud_probability |-> PredictProbability(h),
                         risk_factors |-> <<[factor |-> "Model prediction (mock)",
                                             importance |-> 80]>>])
    /\ UNCHANGED <<driver, nodes, rels, explainer, model, concurrent>>

----------------------------------------------------------------------------
(* ModelService._get_node_color *)

DefaultColor == "#bdc3c7"

GetNodeColor(group) ==
    CASE group = G_transaction -> "#e74c3c"
      [] group = G_user -> "#3498db"
      [] group = G_paymenttoken -> "#9b59b6"
      [] group = G_email -> "#2ecc71"
      [] group = G_ip -> "#f39c12"
      [] group = G_device -> "#1abc9c"
      [] OTHER -> DefaultColor

----------------------------------------------------------------------------
(* ModelService._generate_mock_explanation *)

\* random.randint(WidthLo, WidthHi)
WidthLo == 1
WidthHi == 10

\* The draws of the random module during one call are one of NumSeeds streams of
\* values of WidthLo..WidthHi; Draw(seed, i) is the i-th draw of a stream.
NumSeeds == 2
Draw(seed, i) == WidthLo + ((seed * i + 8 * (seed - 1)) % (WidthHi - WidthLo + 1))

\* str(w / 10.0) for an int w of 0..99
TenthStr(w) == <<DigitChars[(w \div 10) + 1], ".", DigitChars[(w % 10) + 1]>>

\* node['group'], node['id'] raise KeyError on a node without the key
EnrichNodeRaises(node) == ~("group" \in DOMAIN node) \/ ~("id" \in DOMAIN node)

\* the node loop raises at the first such node
EnrichRaises(graph_data) ==
    \E i \in 1..Len(graph_data.nodes) : EnrichNodeRaises(graph_data.nodes[i])

\* variant: the queried node is not set apart
EnrichNode_NoFocus(node, transaction_id) ==
    [label |-> StrCapitalize(node.group) \o <<":", " ">>
               \o StrPrefix(node.id, 6) \o <<".", ".", ".">>,
     color |-> GetNodeColor(node.group)] @@ node

EnrichNode(node, transaction_id) ==
    LET plain == [label |-> StrCapitalize(node.group) \o <<":", " ">>
                            \o StrPrefix(node.id, 6) \o <<".", ".", ".">>,
                  color |-> GetNodeColor(node.group)] @@ node
    IN IF node.id = transaction_id
       THEN [shape |-> "star", size |-> 25] @@ plain
       ELSE plain

\* variant: the edge is turned around
EnrichEdge_Reversed(edge, width) ==
    [width |-> width, title |-> <<"Importance: ">> \o TenthStr(width),
     from |-> edge.to, to |-> edge.from] @@ edge

EnrichEdge(edge, width) ==
    [width |-> width, title |-> <<"Importance: ">> \o TenthStr(width)] @@ edge

SuccessSummary(transaction_id) ==
    <<"Analysis for ">> \o transaction_id
    \o <<": High risk. Transaction is linked via shared entities to other high-risk nodes.">>

ErrorSummary(transaction_id) ==
    <<"Could not generate explanation for ">> \o transaction_id \o <<". Showing mock data.">>

\* variant: the error parameter is not read
GenerateMockExplanation_IgnoresError(transaction_id, graph_data, error, seed) ==
    [nodes |-> [i \in 1..Len(graph_data.nodes) |-> EnrichNode(graph_data.nodes[i], transaction_id)],
     edges |-> [i \in 1..Len(graph_data.edges) |-> EnrichEdge(graph_data.edges[i], Draw(seed, i))],
     summary |-> SuccessSummary(transaction_id)]

\* defined when EnrichRaises(graph_data) is false
GenerateMockExplanation(transaction_id, graph_data, error, seed) ==
    [nodes |-> [i \in 1..Len(graph_data.nodes) |-> EnrichNode(graph_data.nodes[i], transaction_id)],
     edges |-> [i \in 1..Len(graph_data.edges) |-> EnrichEdge(graph_data.edges[i], Draw(seed, i))],
     summary |-> IF error THEN ErrorSummary(transaction_id) ELSE SuccessSummary(transaction_id)]

----------------------------------------------------------------------------
(* ModelService.explain *)

\* what happens in the try block before the result is built (the explainer's
\* place): nothing, or an exception
ExplainFaults == {"none", "exception"}

ExplainResponse(transaction_id, graph_data, source, ret, raised, result) ==
    [Response("explain", ret) EXCEPT !.txn_id = transaction_id, !.raised = raised,
                                     !.result = result]
    @@ [given |-> graph_data, source |-> source]

Explain(transaction_id, graph_data, source, fault, seed) ==
    /\ IF explainer = "none"
       THEN resp' = ExplainResponse(transaction_id, graph_data, source, 102, TRUE, NoGraph)
       ELSE IF fault = "none" /\ ~EnrichRaises(graph_data)
       THEN resp' = ExplainResponse(transaction_id, graph_data, source, 121, FALSE,
                        GenerateMockExplanation(transaction_id, graph_data, FALSE, seed))
       ELSE \* the handler builds the result again, from the same graph_data
            IF EnrichRaises(graph_data)
            THEN resp' = ExplainResponse(transaction_id, graph_data, source, 125, TRUE, NoGraph)
            ELSE resp' = ExplainResponse(transaction_id, graph_data, source, 125, FALSE,
                             GenerateMockExplanation(transaction_id, graph_data, TRUE, seed))
    /\ UNCHANGED <<driver, nodes, rels, explainer, model, concurrent>>

\* a subgraph a caller built itself, with a node that carries no group
CallerGraphs ==
    {[nodes |-> <<[id |-> t, group |-> G_transaction], [id |-> S_user_1]>>,
      edges |-> <<[from |-> S_user_1, to |-> t, title |-> T_PERFORMED]>>] : t \in TxnIds}

\* the explanation of the subgraph the extractor just returned, for the id it
\* was queried with
ExplainExtracted(fault, seed) ==
    /\ resp.op = "subgraph"
    /\ Explain(resp.txn_id, resp.result, "extractor", fault, seed)

ExplainCallerGraph(transaction_id, graph_data, fault, seed) ==
    Explain(transaction_id, graph_data, "caller", fault, seed)

----------------------------------------------------------------------------
(* GraphDatabaseManager.__init__ *)

\* what the constructor meets: the connection is verified; verify_connectivity
\* raises ServiceUnavailable or AuthError; or GraphDatabase.driver itself raises
ConnectOutcomes == {"connected", "ServiceUnavailable", "AuthError", "driver_raised"}
ConnectFailures == {"ServiceUnavailable", "AuthError"}

\* self.driver after __init__: the except clauses only log, so the driver object
\* assigned before verify_connectivity raised stays in place
InitDriver(outcome) ==
    CASE outcome = "connected" -> "connected"
      [] outcome \in ConnectFailures -> "unverified"
      [] outcome = "driver_raised" -> "none"

\* _create_constraints, reached only after verify_connectivity returned: the six
\* CREATE CONSTRAINT statements run, or one raises (and is logged)
ConstraintOutcomes == {"created", "raised"}

InitConstraints(outcome, created) == outcome = "connected" /\ created = "created"

\* no thread is inside a call, nothing was constructed through the getters
NoThreads == <<>>
NoGlobals == [graph_db_instance |-> 0, model_service_instance |-> 0, objects |-> <<>>]

----------------------------------------------------------------------------
(* The graph layer and the explanation of what it extracts.  ModelService is *)
(* constructed with no model path, the default of get_model_service.         *)

Init ==
    /\ driver \in {"none", "connected"}
    /\ nodes = {}
    /\ rels = {}
    /\ constraints = (driver = "connected")
    /\ threads = NoThreads
    /\ globals = NoGlobals
    /\ model = LoadedModel("no_file")
    /\ explainer = LoadedExplainer("no_file")
    /\ resp = Response("init", 0)

Next ==
    \/ \E txn \in Transactions, o \in SessionOutcomes : AddTransaction(txn, o)
    \/ \E id \in QueryIds, depth \in 0..MaxDepth, rich \in TierOutcomes, simple \in TierOutcomes :
          GetTransactionSubgraph(id, depth, rich, simple)
    \/ \E fault \in ExplainFaults, seed \in 1..NumSeeds : ExplainExtracted(fault, seed)
    \/ \E g \in CallerGraphs, fault \in ExplainFaults, seed \in 1..NumSeeds :
          ExplainCallerGraph(g.nodes[1].id, g, fault, seed)

Spec == Init /\ [][Next]_vars

----------------------------------------------------------------------------
(* The explanation layer under every outcome of _load_model, over a store    *)
(* nothing was ingested into: what is extracted is the synthetic subgraph.   *)

ServiceInit ==
    /\ driver \in {"none", "connected"}
    /\ nodes = {}
    /\ rels = {}
    /\ constraints = (driver = "connected")
    /\ threads = NoThreads
    /\ globals = NoGlobals
    /\ \E outcome \in LoadOutcomes :
          /\ model = LoadedModel(outcome)
          /\ explainer = LoadedExplainer(outcome)
    /\ resp = Response("init", 0)

ServiceNext ==
    \/ \E id \in QueryIds, depth \in 0..MaxDepth, rich \in TierOutcomes, simple \in TierOutcomes :
          GetTransactionSubgraph(id, depth, rich, simple)
    \/ \E fault \in ExplainFaults, seed \in 1..NumSeeds : ExplainExtracted(fault, seed)
    \/ \E g \in CallerGraphs, fault \in ExplainFaults, seed \in 1..NumSeeds :
          ExplainCallerGraph(g.nodes[1].id, g, fault, seed)
    \/ \E d \in PredictInputs, h \in HashValues : Predict(d, h)

ServiceSpec == ServiceInit /\ [][ServiceNext]_vars

----------------------------------------------------------------------------
(* The graph layer of a manager whose constructor met a connection error: the *)
(* store may stay out of reach (every session raises) or come back.          *)

StartupFailureInit ==
    /\ driver \in {InitDriver(o) : o \in ConnectFailures}
    /\ nodes = {}
    /\ rels = {}
    /\ constraints = FALSE
    /\ model = LoadedModel("no_file")
    /\ explainer = LoadedExplainer("no_file")
    /\ resp = Response("init", 0)
    /\ threads = NoThreads
    /\ globals = NoGlobals

StartupFailureNext ==
    \/ \E txn \in Transactions, o \in SessionOutcomes : AddTransaction(txn, o)
    \/ \E id \in QueryIds, depth \in 0..MaxDepth, rich \in TierOutcomes, simple \in TierOutcomes :
          GetTransactionSubgraph(id, depth, rich, simple)

StartupFailureSpec == StartupFailureInit /\ [][StartupFailureNext]_vars

----------------------------------------------------------------------------
(* get_graph_db_manager, get_model_service: threads of one process call the   *)
(* getters; a thread can be preempted between any two of the statements       *)
(*     if <global> is None:                                                   *)
(*         <global> = <Class>(..)      -- the constructor call, then the store *)
(*     return <global>                                                        *)

NumCallers == 2
Callers == 1..NumCallers
Getters == {"graph_db", "model_service"}

\* the value of the getter's global: 0 for None, else the position of an object
\* in globals.objects
GlobalOf(g) ==
    IF g = "graph_db" THEN globals.graph_db_instance ELSE globals.model_service_instance

SetGlobal(g, v) ==
    IF g = "graph_db" THEN [globals EXCEPT !.graph_db_instance = v]
    ELSE [globals EXCEPT !.model_service_instance = v]

\* the objects a constructor call can build
NewObjects(g) ==
    IF g = "graph_db"
    THEN {[cls |-> "GraphDatabaseManager", driver |-> InitDriver(o)] : o \in ConnectOutcomes}
    ELSE {[cls |-> "ModelService", model |-> LoadedModel(o), explainer |-> LoadedExplainer(o)] :
          o \in LoadOutcomes}

ClassOf(g) == IF g = "graph_db" THEN "GraphDatabaseManager" ELSE "ModelService"

IdleThread == [pc |-> "idle", getter |-> "none", local |-> 0, got |-> 0]

\* the call, and the test "<global> is None"
GetterCheck(c, g) ==
    /\ threads[c].pc = "idle"
    /\ threads' = [threads EXCEPT ![c].getter = g,
                                  ![c].pc = IF GlobalOf(g) = 0 THEN "construct" ELSE "return"]
    /\ UNCHANGED <<driver, nodes, rels, constraints, explainer, model, resp, globals>>

\* the constructor call; its result is on the thread's stack
GetterConstruct(c) ==
    /\ threads[c].pc = "construct"
    /\ \E obj \in NewObjects(threads[c].getter) :
          globals' = [globals EXCEPT !.objects = Append(@, obj)]
    /\ threads' = [threads EXCEPT ![c].local = Len(globals.objects) + 1, ![c].pc = "assign"]
    /\ UNCHANGED <<driver, nodes, rels, constraints, explainer, model, resp>>

\* the store into the global
GetterAssign(c) ==
    /\ threads[c].pc = "assign"
    /\ globals' = SetGlobal(threads[c].getter, threads[c].local)
    /\ threads' = [threads EXCEPT ![c].pc = "return"]
    /\ UNCHANGED <<driver, nodes, rels, constraints, explainer, model, resp>>

\* return <global>
GetterReturn(c) ==
    /\ threads[c].pc = "return"
    /\ threads' = [threads EXCEPT ![c].got = GlobalOf(threads[c].getter), ![c].pc = "done"]
    /\ UNCHANGED <<driver, nodes, rels, constraints, explainer, model, resp, globals>>

SingletonInit ==
    /\ driver = "none"
    /\ nodes = {}
    /\ rels = {}
    /\ constraints = FALSE
    /\ model = "none"
    /\ explainer = "none"
    /\ resp = Response("init", 0)
    /\ threads = [c \in Callers |-> IdleThread]
    /\ globals = NoGlobals

SingletonNext ==
    \/ \E c \in Callers, g \in Getters : GetterCheck(c, g)
    \/ \E c \in Callers : GetterConstruct(c)
    \/ \E c \in Callers : GetterAssign(c)
    \/ \E c \in Callers : GetterReturn(c)

SingletonSpec == SingletonInit /\ [][SingletonNext]_vars

----------------------------------------------------------------------------
(* add_transaction called by several threads at once.  Each call runs its     *)
(* query in a transaction of its own (session.run auto-commits).  What the    *)
(* store does with concurrent transactions:                                   *)
(*  - a node MERGE reads the committed store; without a uniqueness constraint *)
(*    on (label, id) it takes no lock, so two transactions can both find no   *)
(*    node and both create one; with the constraint the MERGE locks the       *)
(*    (label, id) entry until commit, and the other transaction waits;        *)
(*  - a relationship MERGE between bound nodes locks them and matches again;  *)
(*  - the writes of a transaction become visible together, at its commit.     *)

\* the calls made concurrently: the same transaction id, different attributes
ConcurrentTransactions ==
    {t \in Transactions : t.transaction_id = TxnId(1) /\ ~("device_id" \in DOMAIN t)}

IdleSession == [pc |-> "idle", txn |-> <<>>, seen |-> {}, ret |-> 0]

\* the nodes a MERGE of this transaction matches: those of the live store that
\* were committed when the transaction read
SeenMatch(seen, ns, label, id) == {n \in MatchNode(ns, label, id) : n.element_id \in seen}

\* MERGE (x:label {id: id}) of a transaction that read `seen`, applied to the
\* live store ns: the store after it and the element_id of the node bound
SeenMergeNode(seen, ns, label, id) ==
    IF SeenMatch(seen, ns, label, id) # {}
    THEN [nodes |-> ns, bound |-> (CHOOSE n \in SeenMatch(seen, ns, label, id) : TRUE).element_id]
    ELSE [nodes |-> CreateNode(ns, label, id),
          bound |-> ElementId(label \o <<"/">> \o id, Cardinality(MatchNode(ns, label, id)))]

\* the ingestion query of a transaction that read `seen`, at its commit
SeenIngestQuery(seen, ns, rs, p) ==
    LET t == SeenMergeNode(seen, ns, L_Transaction, p.txn_id)
        n2 == SetTxnProps(t.nodes, t.bound, p.amount, p.merchant, p.timestamp)
        u == SeenMergeNode(seen, n2, L_User, p.user_id)
        r1 == MergeRel(rs, u.bound, t.bound, T_PERFORMED)
        ip == SeenMergeNode(seen, u.nodes, L_IP, p.ip_address)
        r2 == MergeRel(r1, u.bound, ip.bound, T_USED_IP)
        e == SeenMergeNode(seen, ip.nodes, L_Email, p.email)
        r3 == MergeRel(r2, u.bound, e.bound, T_HAS_EMAIL)
        dev == Coalesce(p.device_id, S_unknown_device)
        d == SeenMergeNode(seen, e.nodes, L_Device, dev)
        r4 == MergeRel(r3, u.bound, d.bound, T_USED_DEVICE)
    IN [nodes |-> d.nodes, rels |-> r4]

\* the call up to the point where its query has read the store
AddBegin(c, txn, outcome) ==
    /\ threads[c].pc = "idle"
    /\ IF driver = "none"
       THEN threads' = [threads EXCEPT ![c].txn = txn, ![c].pc = "done", ![c].ret = 51]
       ELSE IF IngestParamsRaise(txn) \/ outcome = "error"
       THEN threads' = [threads EXCEPT ![c].txn = txn, ![c].pc = "done", ![c].ret = 89]
       ELSE /\ constraints => \A o \in Callers : threads[o].pc # "matched"
            /\ threads' = [threads EXCEPT ![c].txn = txn, ![c].pc = "matched",
                                          ![c].seen = {n.element_id : n \in nodes}]
    /\ UNCHANGED <<driver, nodes, rels, constraints, explainer, model, resp, globals>>

\* the commit of the call's transaction, and the return; resp is the last
\* committed call
AddCommit(c) ==
    /\ threads[c].pc = "matched"
    /\ LET txn == threads[c].txn
           q == SeenIngestQuery(threads[c].seen, nodes, rels, IngestParams(txn))
       IN /\ nodes' = q.nodes
          /\ rels' = q.rels
          /\ resp' = [Response("add", 87) EXCEPT !.txn_id = txn.transaction_id]
                     @@ [txn |-> txn, committed |-> TRUE,
                         prior |-> {n.props : n \in MatchNode(nodes, L_Transaction, txn.transaction_id)}]
    /\ threads' = [threads EXCEPT ![c].pc = "done", ![c].ret = 87]
    /\ UNCHANGED <<driver, constraints, explainer, model, globals>>

\* the store before the concurrent calls: empty, or holding one ingested transaction
PriorStores ==
    {[nodes |-> {}, rels |-> {}]} \cup
    {IngestQuery({}, {}, IngestParams(t)) :
     t \in {x \in ConcurrentTransactions : ~IngestParamsRaise(x)}}

ConcurrentInit ==
    /\ \E o \in ConnectOutcomes, k \in ConstraintOutcomes :
          /\ driver = InitDriver(o)
          /\ constraints = InitConstraints(o, k)
    /\ \E st \in PriorStores :
          /\ nodes = st.nodes
          /\ rels = st.rels
    /\ model = LoadedModel("no_file")
    /\ explainer = LoadedExplainer("no_file")
    /\ resp = Response("init", 0)
    /\ threads = [c \in Callers |-> IdleSession]
    /\ globals = NoGlobals

ConcurrentNext ==
    \/ \E c \in Callers, txn \in ConcurrentTransactions, o \in SessionOutcomes : AddBegin(c, txn, o)
    \/ \E c \in Callers : AddCommit(c)

ConcurrentSpec == ConcurrentInit /\ [][ConcurrentNext]_vars

----------------------------------------------------------------------------
(* Properties *)

TxnNodes(id) == MatchNode(nodes, L_Transaction, id)

\* the ids of a result's nodes, the (from, to, title) of its edges
ResultNodeIds(g) == {g.nodes[i].id : i \in 1..Len(g.nodes)}
ResultEdgeTriples(g) == {<<g.edges[i].from, g.edges[i].to, g.edges[i].title>> : i \in 1..Len(g.edges)}
ResultEdgeTitles(g) == {g.edges[i].title : i \in 1..Len(g.edges)}
CountGroup(g, group) == Cardinality({i \in 1..Len(g.nodes) : g.nodes[i].group = group})

\* the return statements of get_transaction_subgraph that return the synthetic
\* subgraph, and those the simple tier ends at when it raises nothing
MockReturns == {98, 162, 189, 195}
SimpleReturns == {162, 189, 191}

\* C1: after an add_transaction that was committed, the store holds exactly one
\* Transaction node with the call's transaction id and its amount, merchant and
\* timestamp are the call's (also when the id was ingested before with other
\* values); no id has two Transaction nodes, and no two relationships have the
\* same start node, end node and type.
C1_IdempotentIngestion ==
    /\ (resp.op = "add" /\ resp.committed) =>
          /\ Cardinality(TxnNodes(resp.txn.transaction_id)) = 1
          /\ \A n \in TxnNodes(resp.txn.transaction_id) :
                /\ n.props.amount = resp.txn.amount
                /\ n.props.merchant = resp.txn.merchant
                /\ n.props.timestamp = IsoFormat(resp.txn.timestamp)
    /\ \A id \in TxnIds : Cardinality(TxnNodes(id)) <= 1
    /\ \A r1, r2 \in rels :
          (r1.start = r2.start /\ r1.end = r2.end /\ r1.type = r2.type) => r1 = r2

\* a committed re-ingestion of an id whose node held another amount, merchant and timestamp
C1_Witness ==
    /\ resp.op = "add" /\ resp.committed
    /\ \E p \in resp.prior :
          /\ "amount" \in DOMAIN p
          /\ p.amount # resp.txn.amount
          /\ p.merchant # resp.txn.merchant
          /\ p.timestamp # IsoFormat(resp.txn.timestamp)

\* C2: after a committed add_transaction whose dict has no device_id, the store
\* holds a Device node with id "unknown_device" and a USED_DEVICE relationship
\* from the call's User node to it.
C2_DeviceSentinel ==
    (resp.op = "add" /\ resp.committed /\ ~("device_id" \in DOMAIN resp.txn)) =>
        \E u \in MatchNode(nodes, L_User, resp.txn.user_id),
           d \in MatchNode(nodes, L_Device, S_unknown_device) :
            MatchRel(rels, u.element_id, d.element_id, T_USED_DEVICE) # {}

\* a committed ingestion without device_id, for a user that already used a named device
C2_Witness ==
    /\ resp.op = "add" /\ resp.committed /\ ~("device_id" \in DOMAIN resp.txn)
    /\ \E d \in DeviceIds : MatchNode(nodes, L_Device, d) # {}

\* C3: get_transaction_subgraph raises nothing and returns a dict of nodes and
\* edges with at least one node, whatever the id, the depth, the driver and the
\* outcome of either tier.
C3_AlwaysUsableResult ==
    resp.op = "subgraph" =>
        /\ ~resp.raised
        /\ DOMAIN resp.result = {"nodes", "edges"}
        /\ Len(resp.result.nodes) > 0

\* both tiers raised, over a store that holds the queried transaction
C3_Witness ==
    /\ resp.op = "subgraph" /\ resp.ret = 195
    /\ TxnNodes(resp.txn_id) # {}

\* C4: without a driver, get_transaction_subgraph returns the synthetic subgraph
\* of the queried id, whatever the depth.
C4_UnreachableStoreFallback ==
    (resp.op = "subgraph" /\ driver = "none") =>
        /\ resp.result.nodes = MockNodes(resp.txn_id)
        /\ resp.result.edges = MockEdges(resp.txn_id)

C4_Witness ==
    /\ resp.op = "subgraph" /\ driver = "none"
    /\ resp.depth = 0
    /\ Len(resp.result.nodes) = 7

\* C5: when the rich tier gave nothing and the queried transaction
\* is in the store, the simple tier returns the nodes within 0..depth hops of
\* it, for the depth passed; with depth 0 the transaction alone and no edge.
C5_SimpleTierHonoursDepth ==
    (resp.op = "subgraph" /\ resp.ret \in SimpleReturns /\ TxnNodes(resp.txn_id) # {}) =>
        /\ resp.ret = 191
        /\ \A t \in TxnNodes(resp.txn_id) :
              ResultNodeIds(resp.result) =
                  {IdOf(NodeById(e)) : e \in Within(t.element_id, resp.depth)}
        /\ resp.depth = 0 =>
              /\ Len(resp.result.nodes) = 1
              /\ resp.result.edges = <<>>

\* C6: a subgraph query with depth 1, answered by the simple tier,
\* right after the ingestion (reachable store, str timestamp, no device_id) of
\* the queried id, returns the transaction, its user, ip, email and the device
\* "unknown_device", and four edges PERFORMED, USED_IP, HAS_EMAIL, USED_DEVICE.
C6_EndToEndExample ==
    [][ ( /\ resp.op = "add" /\ resp.ret # 51
          /\ resp.txn.timestamp.kind = "str"
          /\ ~("device_id" \in DOMAIN resp.txn)
          /\ resp'.op = "subgraph" /\ resp'.txn_id = resp.txn.transaction_id
          /\ resp'.depth = 1 /\ resp'.ret \in SimpleReturns )
        => ( /\ resp'.ret = 191
             /\ ResultNodeIds(resp'.result) =
                   {resp.txn.transaction_id, resp.txn.user_id, resp.txn.ip_address,
                    resp.txn.email, S_unknown_device}
             /\ Len(resp'.result.edges) = 4
             /\ ResultEdgeTitles(resp'.result) =
                   {T_PERFORMED, T_USED_IP, T_HAS_EMAIL, T_USED_DEVICE} ) ]_vars

\* C7: whichever return statement hands out the synthetic subgraph (error flag
\* set or not, store empty or not), it is the same function of the queried id:
\* the transaction, one user, one email, two payment tokens and two further
\* transactions, joined by PERFORMED_BY, USED_TOKEN, SHARED_TOKEN_LINK and two USED_IN.
C7_SyntheticDeterminism ==
    (resp.op = "subgraph" /\ resp.ret \in MockReturns) =>
        LET g == resp.result
        IN /\ Len(g.nodes) = 7
           /\ g.nodes[1] = [id |-> resp.txn_id, group |-> G_transaction]
           /\ ResultNodeIds(g) =
                 {resp.txn_id, S_user_1, S_email_X, S_pmt_A, S_pmt_B, S_fraud_1, S_fraud_2}
           /\ CountGroup(g, G_user) = 1
           /\ CountGroup(g, G_email) = 1
           /\ CountGroup(g, G_paymenttoken) = 2
           /\ CountGroup(g, G_transaction) = 3
           /\ Len(g.edges) = 5
           /\ ResultEdgeTriples(g) =
                 { <<resp.txn_id, S_user_1, T_PERFORMED_BY>>,
                   <<S_user_1, S_pmt_A, T_USED_TOKEN>>,
                   <<S_pmt_A, S_pmt_B, T_SHARED_TOKEN_LINK>>,
                   <<S_pmt_B, S_fraud_1, T_USED_IN>>,
                   <<S_pmt_B, S_fraud_2, T_USED_IN>> }

\* the synthetic subgraph returned with the error flag set, over a store that is not empty
C7_Witness ==
    /\ resp.op = "subgraph" /\ resp.ret = 195
    /\ nodes # {}

\* C8: explain, given the subgraph get_transaction_subgraph returned and the id
\* it was queried with, raises nothing and returns every node of that subgraph,
\* in place, with a label and a color; the nodes whose id is the queried id have
\* shape "star" and size 25, and there is such a node.
C8_AnnotationCompleteness ==
    (resp.op = "explain" /\ resp.source = "extractor") =>
        /\ ~resp.raised
        /\ Len(resp.result.nodes) = Len(resp.given.nodes)
        /\ \A i \in 1..Len(resp.result.nodes) :
              LET n == resp.result.nodes[i]
              IN /\ n.id = resp.given.nodes[i].id
                 /\ "label" \in DOMAIN n /\ Len(n.label) > 0
                 /\ "color" \in DOMAIN n /\ n.color # ""
                 /\ n.id = resp.txn_id =>
                       /\ "shape" \in DOMAIN n /\ n.shape = "star"
                       /\ "size" \in DOMAIN n /\ n.size = 25
        /\ \E i \in 1..Len(resp.result.nodes) : resp.result.nodes[i].id = resp.txn_id

\* the explanation of a subgraph the simple tier extracted from the store
C8_Witness ==
    /\ resp.op = "explain" /\ resp.source = "extractor" /\ resp.ret = 121
    /\ \E i \in 1..Len(resp.given.nodes) : "properties" \in DOMAIN resp.given.nodes[i]
    /\ \E i \in 1..Len(resp.result.nodes) : resp.result.nodes[i].group = G_ip

\* C9: with an explainer loaded, explain raises nothing, and a call
\* that went through its except clause returns nodes, edges and the summary of
\* the degraded case.
C9_ExplainNeverRaises ==
    (resp.op = "explain" /\ explainer # "none") =>
        /\ ~resp.raised
        /\ resp.ret = 125 =>
              /\ DOMAIN resp.result = {"nodes", "edges", "summary"}
              /\ resp.result.summary = ErrorSummary(resp.txn_id)

\* the literal the summary of the degraded case starts with
FailureMarker == "Could not generate explanation for "

\* C10: the summary explain returns from its except clause is not the summary
\* of the success path for the same id, and its first piece, the literal
\* "Could not generate explanation for ", is one no success summary starts with.
C10_DegradedSummaryDistinct ==
    (resp.op = "explain" /\ ~resp.raised) =>
        /\ resp.ret = 125 =>
              /\ resp.result.summary # SuccessSummary(resp.txn_id)
              /\ resp.result.summary[1] = FailureMarker
        /\ resp.ret = 121 =>
              /\ resp.result.summary[1] # FailureMarker
              /\ resp.result.summary[1] = "Analysis for "

\* a result returned from the except clause of explain
C10_Witness ==
    /\ resp.op = "explain" /\ ~resp.raised /\ resp.ret = 125
    /\ Len(resp.result.nodes) > 0

\* C11: when no real model is loaded (no model path or no file at it: the model
\* is "mock_model"; loading raised: the model is None), predict and explain
\* raise their "not loaded" exception and return nothing.
C11_NotLoadedSignal ==
    (resp.op \in {"predict", "explain"} /\ model \in {"mock_model", "none"}) =>
        /\ resp.raised
        /\ resp.ret \in {74, 102}
        /\ resp.result = NoGraph

\* C12: every node of every result of get_transaction_subgraph (rich, simple or
\* synthetic) carries exactly id, group and properties, and every edge carries
\* from, to and title.
C12_NodeAndEdgeFields ==
    resp.op = "subgraph" =>
        /\ \A i \in 1..Len(resp.result.nodes) :
              DOMAIN resp.result.nodes[i] = {"id", "group", "properties"}
        /\ \A i \in 1..Len(resp.result.edges) :
              DOMAIN resp.result.edges[i] = {"from", "to", "title"}

\* C13: on a manager whose constructor met a connectivity or authentication
\* failure, add_transaction returns at its "not available" guard (no session is
\* opened, nothing is committed, nothing is raised) and get_transaction_subgraph
\* returns the synthetic subgraph at its guard (no traversal is attempted).
C13_StoreUnavailableMode ==
    driver = "unverified" =>
        /\ resp.op = "add" => (resp.ret = 51 /\ ~resp.committed /\ ~resp.raised)
        /\ resp.op = "subgraph" =>
              /\ resp.ret = 98
              /\ resp.result = GenerateMockSubgraph(resp.txn_id, FALSE)
        /\ nodes = {} /\ rels = {}

\* the objects of a getter's class constructed so far
Constructed(g) == {i \in 1..Len(globals.objects) : globals.objects[i].cls = ClassOf(g)}

\* C14: however the calls of a getter interleave, its class is constructed at
\* most once, and all callers that returned got the same object.
C14_SingletonConstructedOnce ==
    \A g \in Getters :
        /\ Cardinality(Constructed(g)) <= 1
        /\ \A c1, c2 \in Callers :
              (threads[c1].pc = "done" /\ threads[c2].pc = "done"
               /\ threads[c1].getter = g /\ threads[c2].getter = g)
              => threads[c1].got = threads[c2].got

\* C15: when all concurrent add_transaction calls for one transaction id have
\* returned and at least one committed, the store holds exactly one Transaction
\* node with that id, and its amount, merchant and timestamp are those of the
\* call that committed last.
C15_ConcurrentLastWriteWins ==
    ( /\ \A c \in Callers : threads[c].pc = "done"
      /\ resp.op = "add" /\ resp.committed ) =>
        /\ Cardinality(TxnNodes(resp.txn_id)) = 1
        /\ \A n \in TxnNodes(resp.txn_id) :
              /\ n.props.amount = resp.txn.amount
              /\ n.props.merchant = resp.txn.merchant
              /\ n.props.timestamp = IsoFormat(resp.txn.timestamp)

\* C16: whatever predict returns (from its return statement or from its except
\* clause), the fraud_probability is within [0, 1] and every importance of the
\* risk_factors list is within [0, 1]; in hundredths, within 0..100.
C16_ProbabilityRange ==
    (resp.op = "predict" /\ ~resp.raised) =>
        /\ resp.result.fraud_probability >= 0
        /\ resp.result.fraud_probability <= 100
        /\ \A i \in 1..Len(resp.result.risk_factors) :
              /\ resp.result.risk_factors[i].importance >= 0
              /\ resp.result.risk_factors[i].importance <= 100

\* the largest probability of the mock prediction, 0.98
C16_Witness ==
    /\ resp.op = "predict" /\ resp.ret = 89
    /\ resp.result.fraud_probability = 98
    /\ Len(resp.result.risk_factors) = 1

\* what the simple traversal alone returns for an id over the present store
SimpleAlone(transaction_id) ==
    IF SimpleRows(transaction_id) = {}
    THEN {GenerateMockSubgraph(transaction_id, FALSE)}
    ELSE {IF Len(record.nodes) = 0 THEN GenerateMockSubgraph(transaction_id, FALSE)
          ELSE ProjectRecord(record) : record \in SimpleRows(transaction_id)}

\* C17: within one call, the result of the rich traversal is returned when it
\* has nodes, and then the simple traversal is not run; the simple traversal is
\* run only after the rich one raised or returned no nodes; the synthetic
\* subgraph is returned only without a driver, or after the simple traversal
\* raised or returned nothing; and when the rich traversal raised and the
\* simple one ran, the result is a result of the simple traversal alone.
C17_TierOrder ==
    resp.op = "subgraph" =>
        /\ resp.rich = "nodes" =>
              /\ resp.ret = 140 /\ resp.simple = "not_run"
              /\ \E record \in RichRows(resp.txn_id, resp.depth) :
                    resp.result = ProjectRecord(record)
        /\ resp.simple # "not_run" => resp.rich \in {"raised", "empty"}
        /\ resp.rich = "empty" =>
              \A record \in RichRows(resp.txn_id, resp.depth) : Len(record.nodes) = 0
        /\ resp.rich = "not_run" => (driver = "none" /\ resp.ret = 98)
        /\ resp.ret \in MockReturns =>
              \/ driver = "none"
              \/ resp.simple = "raised"
              \/ resp.simple = "ran" /\ SimpleRows(resp.txn_id) = {}
        /\ resp.simple = "ran" => resp.result \in SimpleAlone(resp.txn_id)

\* the rich traversal raised and the simple one returned part of the store
C17_Witness ==
    /\ resp.op = "subgraph" /\ resp.rich = "raised" /\ resp.simple = "ran"
    /\ resp.ret = 191
    /\ Len(resp.result.edges) > 1

\* C18: in every result of get_transaction_subgraph, the from and the to of
\* each edge are ids of nodes of the same result.
C18_EdgeEndpointsReturned ==
    resp.op = "subgraph" =>
        \A i \in 1..Len(resp.result.edges) :
            /\ resp.result.edges[i].from \in ResultNodeIds(resp.result)
            /\ resp.result.edges[i].to \in ResultNodeIds(resp.result)

\* the nodes of a result that explain marked as the focal node
Focal(g) == {i \in 1..Len(g.nodes) : "shape" \in DOMAIN g.nodes[i] /\ g.nodes[i].shape = "star"}

\* C19: the nodes of the synthetic subgraph have pairwise distinct ids, whatever
\* the queried id, and the explanation of a synthetic subgraph for the id it
\* was queried with has exactly one focal node.
C19_SyntheticIdsDistinct ==
    /\ (resp.op = "subgraph" /\ resp.ret \in MockReturns) =>
          Cardinality(ResultNodeIds(resp.result)) = Len(resp.result.nodes)
    /\ (resp.op = "explain" /\ resp.source = "extractor" /\ ~resp.raised
        /\ resp.given.nodes = MockNodes(resp.txn_id)) =>
          Cardinality(Focal(resp.result)) = 1

\* the keys explain may write on a node, on an edge
NodeAnnotations == {"label", "color", "shape", "size"}
EdgeAnnotations == {"width", "title"}

\* b is dict a with some of the keys of `written` set, and nothing else changed
OnlyWrites(a, b, written) ==
    /\ DOMAIN a \subseteq DOMAIN b
    /\ DOMAIN b \subseteq DOMAIN a \cup written
    /\ \A k \in DOMAIN a \ written : b[k] = a[k]

\* C20: a call of explain leaves the store as it is; when it returns, the nodes
\* and the edges of the result are those of the subgraph it was given, as many
\* and in the same order, each changed in the keys label, color, shape, size
\* (nodes) and width, title (edges) only.
C20_ExplainFrame ==
    [][ resp'.op = "explain" =>
          /\ nodes' = nodes /\ rels' = rels
          /\ ~resp'.raised =>
                /\ Len(resp'.result.nodes) = Len(resp'.given.nodes)
                /\ Len(resp'.result.edges) = Len(resp'.given.edges)
                /\ \A i \in 1..Len(resp'.given.nodes) :
                      OnlyWrites(resp'.given.nodes[i], resp'.result.nodes[i], NodeAnnotations)
                /\ \A i \in 1..Len(resp'.given.edges) :
                      OnlyWrites(resp'.given.edges[i], resp'.result.edges[i], EdgeAnnotations) ]_vars

\* the explanation of a subgraph taken from the store, whose edge titles were
\* relationship types
C20_Witness ==
    /\ resp.op = "explain" /\ ~resp.raised /\ nodes # {}
    /\ Len(resp.given.edges) > 0
    /\ resp.given.edges[1].title \in {T_PERFORMED, T_USED_IP, T_HAS_EMAIL, T_USED_DEVICE}
    /\ resp.result.edges[1].title # resp.given.edges[1].title
    /\ \E i \in 1..Len(resp.given.nodes) : "properties" \in DOMAIN resp.given.nodes[i]

====
